---- MODULE Spec2Model ----
(***************************************************************************)
(* A model of pytest-speed's BenchmarkRun (src/pytest_speed/main.py):      *)
(* the calibrator (_warmup), the measurer (run_benchmark) and the report   *)
(* (print_table, _add_group_row, _prepare_units, _render_time).            *)
(*                                                                         *)
(* Time.  The clock (perf_counter_ns) is the variable now, an integer      *)
(* number of ticks.  TLC's integers are 32 bits wide and the source's      *)
(* max_time_ns (3_000_000_000) does not fit, so DefaultConfig states the   *)
(* source's time budgets with a tick of 1 ms (10^6 ns); the counts are the *)
(* source's.  _warmup and run_benchmark only add, compare and divide       *)
(* times, so the scale changes no result.  In the report a tick is 1 ns.   *)
(*                                                                         *)
(* Floats.  Python's floats are modelled by exact rationals, a pair        *)
(* <<numerator, denominator>>; int() is the floor of a positive quotient   *)
(* and the format specs 0.2f / 0.2% round the exact quotient half-even.    *)
(*                                                                         *)
(* Optional[str] is a sequence: <<>> is None, <<s>> is the string s.       *)
(***************************************************************************)
EXTENDS Integers, Sequences, FiniteSets, TLC

VARIABLES
    \* BenchmarkRun's fields (main.py:54-62)
    config, benchmarks, units, div, table, current_group, group_best,
    \* run_benchmark's and _warmup's arguments and locals (main.py:64-139)
    pc, name, group, func, warnings, wtimes, mean_warmup,
    iter_per_round, rounds, times, start_time, toc,
    \* the environment: the clock, the calls made to func by the running
    \* run_benchmark, the exception that left the last call of a method
    \* ("" when it returned), the number of run_benchmark calls so far, and
    \* what each print_table call printed
    now, calls, exc, nRuns, printed

vars == <<config, benchmarks, units, div, table, current_group, group_best,
          pc, name, group, func, warnings, wtimes, mean_warmup,
          iter_per_round, rounds, times, start_time, toc,
          now, calls, exc, nRuns, printed>>

runVars == <<config, benchmarks, units, div, table, current_group, group_best>>

----------------------------------------------------------------------------
\* Bounds

\* run_benchmark calls in one session
MaxBenchmarks == 2

----------------------------------------------------------------------------
\* Values

None == <<>>
Some(s) == <<s>>

\* s[lo] + ... + s[hi], halving the range (a warmup holds up to
\* warmup_max_iterations times)
RECURSIVE SumRange(_, _, _)
SumRange(s, lo, hi) ==
    IF lo > hi THEN 0
    ELSE IF lo = hi THEN s[lo]
    ELSE LET mid == (lo + hi) \div 2
         IN  SumRange(s, lo, mid) + SumRange(s, mid + 1, hi)

Sum(s) == SumRange(s, 1, Len(s))

RECURSIVE Min(_)
Min(s) == IF Len(s) = 1 THEN s[1]
          ELSE LET m == Min(Tail(s)) IN IF s[1] <= m THEN s[1] ELSE m

RECURSIVE Max(_)
Max(s) == IF Len(s) = 1 THEN s[1]
          ELSE LET m == Max(Tail(s)) IN IF s[1] >= m THEN s[1] ELSE m

\* statistics.mean, as the exact quotient sum / n
Mean(s) == <<Sum(s), Len(s)>>

\* a / b of two non-negative numbers rounded to an integer, ties to even:
\* what a format spec with a fixed number of digits does to the exact value
RoundDiv(a, b) ==
    LET q == a \div b
        r == a % b
    IN  IF 2 * r < b THEN q
        ELSE IF 2 * r > b THEN q + 1
        ELSE IF q % 2 = 0 THEN q ELSE q + 1

\* f'{a / b:0.2%}': the hundredths of a percent printed, sign included
FormatPercent(a, b) ==
    IF a >= 0 THEN RoundDiv(10000 * a, b) ELSE 0 - RoundDiv(10000 * (0 - a), b)

----------------------------------------------------------------------------
\* BenchmarkConfig (class attributes; ticks of 1 ms)

DefaultConfig ==
    [warmup_time_ns |-> 1000, warmup_max_iterations |-> 5000,
     max_rounds |-> 10000, max_time_ns |-> 3000, high_percentage |-> 10,
     ideal_rounds |-> 100, min_rounds |-> 30,
     ideal_iterations |-> 10000, min_iterations |-> 1000]

\* Configurations of the same shape scaled down: a BenchmarkRun takes any
\* configuration object, and nothing orders the ideal and the min counts
SmallConfig(ir, mr, ii, mi) ==
    [warmup_time_ns |-> 3, warmup_max_iterations |-> 2,
     max_rounds |-> 10, max_time_ns |-> 12, high_percentage |-> 10,
     ideal_rounds |-> ir, min_rounds |-> mr,
     ideal_iterations |-> ii, min_iterations |-> mi]

\* The configurations of the modelled sessions
Configs ==
    {DefaultConfig, SmallConfig(3, 3, 3, 2), SmallConfig(4, 2, 3, 1),
     SmallConfig(2, 3, 3, 2)}

\* The benchmarked callable: a call takes d ticks, in the warmup up to wjit
\* more; a measured round takes up to rjit more than its calls; raises says
\* whether a call may raise.
Callable(d, wjit, rjit, raises) ==
    [d |-> d, wjit |-> wjit, rjit |-> rjit, raises |-> raises]

NoFunc == Callable(0, 0, 0, FALSE)

Funcs(cfg) ==
    IF cfg = DefaultConfig
    THEN {Callable(1, 0, 0, FALSE), Callable(4, 0, 500, FALSE),
          Callable(10, 0, 0, FALSE)}
    ELSE {Callable(1, 0, 0, FALSE), Callable(1, 1, 2, TRUE),
          Callable(4, 0, 0, FALSE), Callable(7, 0, 2, TRUE),
          Callable(13, 0, 0, FALSE)}

GroupArgs == {None, Some("a")}

----------------------------------------------------------------------------
\* BenchmarkRun._warmup, lines 125-139: (iter_per_round, rounds) from the
\* mean of the warmup times

CalibrateNoClamp(cfg, mean) ==
    LET budget == (cfg.max_time_ns * mean[2]) \div (cfg.ideal_rounds * mean[1])
        ipr == IF cfg.ideal_iterations <= budget THEN cfg.ideal_iterations ELSE budget
    IN  <<ipr, cfg.ideal_rounds>>

CalibrateMinRounds(cfg, mean) ==
    LET budget == (cfg.max_time_ns * mean[2]) \div (cfg.ideal_rounds * mean[1])
        ipr == IF cfg.ideal_iterations <= budget THEN cfg.ideal_iterations ELSE budget
    IN  IF ipr < cfg.min_iterations
        THEN LET fit == (cfg.max_time_ns * mean[2]) \div (mean[1] * cfg.min_iterations)
             IN  <<cfg.min_iterations, IF cfg.min_rounds <= fit THEN cfg.min_rounds ELSE fit>>
        ELSE <<ipr, cfg.ideal_rounds>>

Calibrate(cfg, mean) ==
    LET \* int(round_time / mean_warmup), round_time = max_time_ns / ideal_rounds
        budget == (cfg.max_time_ns * mean[2]) \div (cfg.ideal_rounds * mean[1])
        \* min(ideal_iterations, ...)
        ipr == IF cfg.ideal_iterations <= budget THEN cfg.ideal_iterations ELSE budget
    IN  IF ipr < cfg.min_iterations
        THEN LET \* int(max_time_ns / (mean_warmup * iter_per_round))
                 fit == (cfg.max_time_ns * mean[2]) \div (mean[1] * cfg.min_iterations)
             IN  <<cfg.min_iterations, IF cfg.min_rounds >= fit THEN cfg.min_rounds ELSE fit>>
        ELSE <<ipr, cfg.ideal_rounds>>

----------------------------------------------------------------------------
\* run_benchmark, lines 86-107: the statistics of the round times

TimedOutWarning == [msg |-> "Benchmark timed out", value |-> 0]
HighWarning(pct) == [msg |-> "% of iterations are high!", value |-> pct]

\* int(best_ns * (1 + high_percentage / 100))
HighThreshold(cfg, best_ns) == (best_ns * (100 + cfg.high_percentage)) \div 100

HighRounds(cfg, ts) ==
    Cardinality({i \in DOMAIN ts : ts[i] > HighThreshold(cfg, Min(ts))})

\* high_prop = high_rounds / rounds, rounds being the count _warmup returned
HighProp(cfg, ts, requested) == <<HighRounds(cfg, ts), requested>>

\* the warnings after line 93
WithHighWarning(ws, prop) ==
    IF 10 * prop[1] > prop[2]
    THEN Append(ws, HighWarning(FormatPercent(prop[1], prop[2])))
    ELSE ws

RoundsRequested(ts, requested) == requested

\* rounds=len(times)
RoundsExecuted(ts, requested) == Len(ts)

\* Benchmark(...), lines 95-107.  stddev_ns is left out: stdev is modelled by
\* when it is defined alone (two or more round times).
MakeBenchmark(cfg, nm, grp, ts, ipr, requested, bench_time, ws) ==
    [name |-> nm, group |-> grp,
     best_ns |-> Min(ts), worse_ns |-> Max(ts), mean_ns |-> Mean(ts),
     bench_time_ns |-> bench_time,
     rounds |-> RoundsExecuted(ts, requested),
     iter_per_round |-> ipr,
     high_rounds |-> HighRounds(cfg, ts),
     warnings |-> ws]

----------------------------------------------------------------------------
\* Where an exception raised by the callable goes: run_benchmark and _warmup
\* have no try, so it leaves run_benchmark

PropagateRetry(at) == at

Propagate(at) == "raised"

----------------------------------------------------------------------------
\* BenchmarkRun(config)

InitRun(cfg) ==
    /\ config = cfg
    /\ units = "s"
    /\ div = 1000000000
    /\ table = <<>>
    /\ current_group = None
    /\ group_best = None

\* No run_benchmark call is under way
InitLocals ==
    /\ pc = "idle"
    /\ name = ""
    /\ group = None
    /\ func = NoFunc
    /\ warnings = <<>>
    /\ wtimes = <<>>
    /\ mean_warmup = <<0, 1>>
    /\ iter_per_round = 0
    /\ rounds = 0
    /\ times = <<>>
    /\ start_time = 0
    /\ toc = 0
    /\ now = 0
    /\ calls = 0
    /\ exc = ""
    /\ printed = <<>>

Init ==
    /\ \E cfg \in Configs : InitRun(cfg)
    /\ benchmarks = <<>>
    /\ nRuns = 0
    /\ InitLocals

\* run_benchmark(name, group, func, *args) is called with one of the
\* callables fs: lines 68 and 115-116
RunBenchmarkCalled(fs) ==
    /\ pc \in {"idle", "raised"}
    /\ nRuns < MaxBenchmarks
    /\ \E f \in fs, g \in GroupArgs :
          /\ func' = f
          /\ group' = g
    /\ name' = "bm" \o ToString(nRuns)
    /\ nRuns' = nRuns + 1
    /\ warnings' = <<>>
    /\ wtimes' = <<>>
    /\ times' = <<>>
    /\ start_time' = now
    /\ calls' = 0
    /\ exc' = ""
    /\ pc' = "warmup"
    /\ UNCHANGED <<mean_warmup, iter_per_round, rounds, toc, now, printed>>
    /\ UNCHANGED runVars

StartBenchmark == RunBenchmarkCalled(Funcs(config))

\* One iteration of _warmup's loop, lines 117-123; the loop ends on the
\* iteration count or on the time.  start_time is _warmup's own local here
\* (line 116), and run_benchmark's from line 73 on.
WarmupCall ==
    /\ pc = "warmup"
    /\ \E j \in {0, func.wjit} :
          /\ now' = now + func.d + j
          /\ wtimes' = Append(wtimes, func.d + j)
    /\ toc' = now'
    /\ calls' = calls + 1
    /\ pc' = IF \/ now' - start_time > config.warmup_time_ns
                \/ Len(wtimes') >= config.warmup_max_iterations
             THEN "calibrate" ELSE "warmup"
    /\ UNCHANGED <<name, group, func, warnings, mean_warmup, iter_per_round,
                   rounds, times, start_time, exc, nRuns, printed>>
    /\ UNCHANGED runVars

\* _warmup lines 125-139, and run_benchmark lines 69-74
CalibrateStep ==
    /\ pc = "calibrate"
    /\ mean_warmup' = Mean(wtimes)
    /\ wtimes' = <<>>
    /\ iter_per_round' = Calibrate(config, mean_warmup')[1]
    /\ rounds' = Calibrate(config, mean_warmup')[2]
    /\ times' = <<>>
    /\ start_time' = now
    /\ toc' = now
    /\ pc' = IF rounds' > 0 THEN "rounds" ELSE "finish"
    /\ UNCHANGED <<name, group, func, warnings, now, calls, exc, nRuns, printed>>
    /\ UNCHANGED runVars

\* One round, lines 77-84
Round ==
    /\ pc = "rounds"
    /\ \E j \in {0, func.rjit} :
          now' = now + iter_per_round * func.d + j
    /\ toc' = now'
    /\ times' = Append(times, now' - now)
    /\ calls' = calls + iter_per_round
    /\ IF toc' - start_time > config.max_time_ns * 2
       THEN /\ warnings' = Append(warnings, TimedOutWarning)
            /\ pc' = "finish"
       ELSE /\ warnings' = warnings
            /\ pc' = IF Len(times') >= rounds THEN "finish" ELSE "rounds"
    /\ UNCHANGED <<name, group, func, wtimes, mean_warmup, iter_per_round,
                   rounds, start_time, exc, nRuns, printed>>
    /\ UNCHANGED runVars

\* func raises: in the warmup (line 119) or at the k-th call of a round
\* (line 79)
CallRaises ==
    /\ pc \in {"warmup", "rounds"}
    /\ func.raises
    /\ \E k \in 1..(IF pc = "warmup" THEN 1 ELSE iter_per_round) :
          calls' = calls + k
    /\ exc' = "CallableError"
    /\ pc' = Propagate(pc)
    /\ UNCHANGED <<name, group, func, warnings, wtimes, mean_warmup,
                   iter_per_round, rounds, times, start_time, toc, now,
                   nRuns, printed>>
    /\ UNCHANGED runVars

\* Lines 86-109.  times holds a round at least (rounds > 0); stdev raises
\* StatisticsError on fewer than two.
Finish ==
    /\ pc = "finish"
    /\ warnings' = WithHighWarning(warnings, HighProp(config, times, rounds))
    /\ IF Len(times) < 2
       THEN /\ exc' = "StatisticsError"
            /\ pc' = "raised"
            /\ benchmarks' = benchmarks
       ELSE /\ exc' = ""
            /\ pc' = "idle"
            /\ benchmarks' = Append(benchmarks,
                  MakeBenchmark(config, name, group, times, iter_per_round,
                                rounds, toc - start_time, warnings'))
    /\ UNCHANGED <<name, group, func, wtimes, mean_warmup, iter_per_round,
                   rounds, times, start_time, toc, now, calls, nRuns, printed>>
    /\ UNCHANGED <<config, units, div, table, current_group, group_best>>

Next ==
    \/ StartBenchmark
    \/ WarmupCall
    \/ CalibrateStep
    \/ Round
    \/ CallRaises
    \/ Finish

Spec == Init /\ [][Next]_vars

----------------------------------------------------------------------------
\* The calibrator alone: _warmup over a wider family of configurations and
\* call times, up to its return

CalConfigs ==
    {DefaultConfig} \cup
    {SmallConfig(ir, mr, ii, mi) :
        ir \in 1..4, mr \in 1..4, ii \in {1, 2, 4}, mi \in 1..3}

CalFuncs(cfg) ==
    IF cfg = DefaultConfig
    THEN {Callable(1, 0, 0, FALSE)}
    ELSE {Callable(d, 0, 0, FALSE) : d \in 1..13} \cup {Callable(1, 1, 0, TRUE)}

InitCalibrate ==
    /\ \E cfg \in CalConfigs : InitRun(cfg)
    /\ benchmarks = <<>>
    /\ nRuns = 0
    /\ InitLocals

StartCalibration == RunBenchmarkCalled(CalFuncs(config))

NextCalibrate ==
    \/ StartCalibration
    \/ WarmupCall
    \/ CalibrateStep
    \/ CallRaises

SpecCalibrate == InitCalibrate /\ [][NextCalibrate]_vars

----------------------------------------------------------------------------
\* The report: print_table and what it calls

MaxRecords == 3
MaxPrints == 2

\* str < str on the group labels of the model
GroupLabels == <<"a", "b">>
LabelRank(s) == CHOOSE i \in DOMAIN GroupLabels : GroupLabels[i] = s
StrLess(s, t) == LabelRank(s) < LabelRank(t)

\* bm.best_ns / bm.iter_per_round
PerCall(bm) == <<bm.best_ns, bm.iter_per_round>>

\* any(bm.group for bm in self.benchmarks): None and '' are falsy
ShowGroups(bs) == \E i \in DOMAIN bs : bs[i].group # None /\ bs[i].group # Some("")

\* The key (bm.group, bm.mean_ns) of a < that of b, for two keys Python can
\* compare: tuples compare the first items that differ
KeyLess(a, b) ==
    IF a.group = b.group
    THEN a.mean_ns[1] * b.mean_ns[2] < b.mean_ns[1] * a.mean_ns[2]
    ELSE StrLess(a.group[1], b.group[1])

\* (None, m) < ('a', m') raises TypeError, and a sort of a list that holds
\* both kinds of key compares two of them
SortRaises(bs) ==
    \E i, j \in DOMAIN bs : bs[i].group = None /\ bs[j].group # None

\* list.sort is stable: x goes before the first item greater than it
RECURSIVE InsertSorted(_, _)
InsertSorted(x, sorted) ==
    IF sorted = <<>> THEN <<x>>
    ELSE IF KeyLess(x, sorted[Len(sorted)])
         THEN Append(InsertSorted(x, SubSeq(sorted, 1, Len(sorted) - 1)),
                     sorted[Len(sorted)])
         ELSE Append(sorted, x)

RECURSIVE SortBenchmarks(_)
SortBenchmarks(bs) ==
    IF bs = <<>> THEN <<>>
    ELSE InsertSorted(bs[Len(bs)], SortBenchmarks(SubSeq(bs, 1, Len(bs) - 1)))

\* _prepare_units: min_time < T is floor(min_time) < T for the integers T
MinTimeFloor(bs) ==
    LET floors == {bs[i].best_ns \div bs[i].iter_per_round : i \in DOMAIN bs}
    IN  CHOOSE m \in floors : \A k \in floors : m <= k

PrepareUnits(bs) ==
    LET min_time == MinTimeFloor(bs)
    IN  IF min_time < 1000 THEN [units |-> "ns", div |-> 1]
        ELSE IF min_time < 1000000 THEN [units |-> "us", div |-> 1000]  \* 'µs'
        ELSE IF min_time < 1000000000 THEN [units |-> "ms", div |-> 1000000]
        ELSE [units |-> "s", div |-> 1000000000]

\* _render_time(ns), ns = q[1] / q[2]: the digits printed and how many of
\* them follow the point
RenderTime(q, dv) ==
    LET dp == IF q[1] < q[2] * dv THEN 3
              ELSE IF q[1] < 100 * q[2] * dv THEN 2 ELSE 1
        scale == IF dp = 3 THEN 1000 ELSE IF dp = 2 THEN 100 ELSE 10
    IN  [dp |-> dp, digits |-> RoundDiv(q[1] * scale, q[2] * dv)]

\* The relative column: '', f'x{best_ns / group_best:0.2f}' or
\* f'+{(best_ns - group_best) / group_best:0.2%}', lines 181 and 194-197
NoRel == [prefix |-> "", value |-> 0]

Relative(t, b) ==
    IF t[1] * b[2] > 2 * b[1] * t[2]
    THEN [prefix |-> "x", value |-> RoundDiv(100 * t[1] * b[2], t[2] * b[1])]
    ELSE [prefix |-> "+",
          value |-> FormatPercent(t[1] * b[2] - b[1] * t[2], b[1] * t[2])]

\* _add_group_row(index, benchmark) with self.current_group = cur and
\* self.group_best = gb: the row added and the two fields after it
AddGroupRow(bs, index, cur, gb, dv) ==
    LET benchmark == bs[index]
        group_in_last == \/ index + 1 > Len(bs)
                         \/ bs[index + 1].group # benchmark.group
        best_ns == PerCall(benchmark)
        new_group == benchmark.group # cur
        row == [group_col |-> IF new_group THEN benchmark.group ELSE Some(""),
                name |-> benchmark.name,
                style |-> IF new_group
                          THEN (IF group_in_last THEN None ELSE Some("green"))
                          ELSE (IF group_in_last THEN Some("red") ELSE Some("cyan")),
                best |-> RenderTime(best_ns, dv),
                rel |-> IF new_group THEN NoRel ELSE Relative(best_ns, gb),
                iterations |-> benchmark.rounds * benchmark.iter_per_round,
                note |-> benchmark.warnings,
                end_section |-> group_in_last]
    IN  [row |-> row,
         current_group |-> IF new_group THEN benchmark.group ELSE cur,
         group_best |-> IF new_group THEN best_ns ELSE gb]

\* _add_no_group_row(benchmark)
AddNoGroupRow(benchmark, dv) ==
    [name |-> benchmark.name,
     best |-> RenderTime(PerCall(benchmark), dv),
     iterations |-> benchmark.rounds * benchmark.iter_per_round,
     note |-> benchmark.warnings]

\* The loop of lines 164-168 over the first n records: the rows of the table
\* and the two fields after them
RECURSIVE AddRows(_, _, _, _, _, _)
AddRows(bs, n, show_groups, cur, gb, dv) ==
    IF n = 0 THEN [rows |-> <<>>, current_group |-> cur, group_best |-> gb]
    ELSE LET before == AddRows(bs, n - 1, show_groups, cur, gb, dv)
         IN  IF show_groups
             THEN LET r == AddGroupRow(bs, n, before.current_group,
                                       before.group_best, dv)
                  IN  [rows |-> Append(before.rows, r.row),
                       current_group |-> r.current_group,
                       group_best |-> r.group_best]
             ELSE [before EXCEPT !.rows = Append(@, AddNoGroupRow(bs[n], dv))]

\* The records a session can hold: what run_benchmark builds from the round
\* times ts of a run of Len(ts) rounds of ipr calls
RecordOf(nm, grp, ts, ipr) ==
    MakeBenchmark(DefaultConfig, nm, grp, ts, ipr, Len(ts), Sum(ts),
                  WithHighWarning(<<>>, HighProp(DefaultConfig, ts, Len(ts))))

\* <<round times, iter_per_round>> of the runs behind the reported records
Measurements ==
    {<<<<10, 10>>, 1>>, <<<<12, 12>>, 1>>, <<<<25, 25>>, 1>>,
     <<<<20, 20>>, 1>>, <<<<5, 15>>, 1>>, <<<<4, 18>>, 1>>,
     <<<<3000, 3600>>, 2>>}

GroupsReported == {None, Some("a"), Some("b")}

RecordLists ==
    UNION {[1..n -> GroupsReported \X Measurements] : n \in 0..MaxRecords}

\* A session whose run_benchmark calls have returned, before its report
InitReport ==
    /\ InitRun(DefaultConfig)
    /\ \E l \in RecordLists :
          benchmarks = [i \in DOMAIN l |->
                          RecordOf("bm" \o ToString(i - 1), l[i][1],
                                   l[i][2][1], l[i][2][2])]
    /\ nRuns = Len(benchmarks)
    /\ InitLocals

\* print_table(), lines 141-171.  An exception of the sort leaves print_table
\* with the order of the list unspecified: the model follows the session no
\* further.  In the row loop the records all have a group (the sort
\* returned), so group_best is set before line 194 reads it.
PrintTable ==
    /\ pc = "idle"
    /\ exc = ""
    /\ Len(printed) < MaxPrints
    /\ IF benchmarks = <<>>
       THEN /\ printed' = Append(printed, [text |-> "No benchmarks run"])
            /\ UNCHANGED <<benchmarks, units, div, table, current_group,
                           group_best, exc>>
       ELSE LET show_groups == ShowGroups(benchmarks)
                u == PrepareUnits(benchmarks)
            IN  /\ units' = u.units
                /\ div' = u.div
                /\ IF SortRaises(benchmarks)
                   THEN /\ exc' = "TypeError"
                        /\ table' = <<>>
                        /\ UNCHANGED <<benchmarks, current_group, group_best,
                                       printed>>
                   ELSE LET sorted == SortBenchmarks(benchmarks)
                            out == AddRows(sorted, Len(sorted), show_groups,
                                           current_group, group_best, u.div)
                        IN  /\ benchmarks' = sorted
                            /\ table' = out.rows
                            /\ current_group' = out.current_group
                            /\ group_best' = out.group_best
                            /\ printed' = Append(printed,
                                  [units |-> u.units, div |-> u.div,
                                   show_groups |-> show_groups,
                                   rows |-> out.rows])
                            /\ exc' = ""
    /\ UNCHANGED <<config, pc, name, group, func, warnings, wtimes,
                   mean_warmup, iter_per_round, rounds, times, start_time,
                   toc, now, calls, nRuns>>

NextReport == PrintTable

SpecReport == InitReport /\ [][NextReport]_vars

----------------------------------------------------------------------------
\* Properties

Range(s) == {s[i] : i \in DOMAIN s}
Last(s) == s[Len(s)]

\* _warmup has returned to run_benchmark and no round has run yet
WarmupReturned == pc = "rounds" /\ times = <<>>

\* func takes the same time at every warmup call
ConstantTime == func.wjit = 0

\* the last run_benchmark call has returned its Benchmark
Returned == pc = "idle" /\ exc = "" /\ nRuns > 0 /\ benchmarks # <<>>

\* C1, as stated: for every configuration and constant-time callable _warmup
\* returns iter_per_round >= min_iterations and rounds >= min_rounds.
C1_WarmupFloors ==
    (WarmupReturned /\ ConstantTime) =>
        /\ iter_per_round >= config.min_iterations
        /\ rounds >= config.min_rounds

\* C1, amended: for every configuration and constant-time callable _warmup
\* returns iter_per_round >= min_iterations, and rounds >= min_rounds when the
\* configuration has ideal_rounds >= min_rounds.
C1_WarmupFloorsAmended ==
    (WarmupReturned /\ ConstantTime) =>
        /\ iter_per_round >= config.min_iterations
        /\ (config.ideal_rounds >= config.min_rounds => rounds >= config.min_rounds)

\* C1's case: the clamp of line 135 engaged and the fallback formula of line
\* 137 gave more rounds than the floor
C1_Witness ==
    /\ WarmupReturned /\ ConstantTime
    /\ config.ideal_rounds >= config.min_rounds
    /\ iter_per_round = config.min_iterations
    /\ rounds > config.min_rounds
    /\ rounds < config.ideal_rounds

\* C2: once a round ends more than 2 * max_time_ns after start_time, the
\* warning is appended, no further round runs and run_benchmark returns and
\* records a Benchmark of the rounds run so far that carries the warning; it
\* never ends in an error.
C2_TimeoutReturnsBenchmark ==
    TimedOutWarning \in Range(warnings) =>
        \/ pc = "finish"
        \/ /\ Returned
           /\ Last(benchmarks).name = name
           /\ Last(benchmarks).rounds = Len(times)
           /\ TimedOutWarning \in Range(Last(benchmarks).warnings)

\* C3: every recorded Benchmark has best_ns <= mean_ns <= worse_ns,
\* rounds >= 1 and iter_per_round >= 1, and the Benchmark a call returns has
\* for rounds the number of rounds run, at most the number _warmup asked for.
C3_BenchmarkInvariant ==
    /\ \A i \in DOMAIN benchmarks :
          LET b == benchmarks[i]
          IN  /\ b.best_ns * b.mean_ns[2] <= b.mean_ns[1]
              /\ b.mean_ns[1] <= b.worse_ns * b.mean_ns[2]
              /\ b.rounds >= 1
              /\ b.iter_per_round >= 1
    /\ Returned =>
          /\ Last(benchmarks).rounds = Len(times)
          /\ Last(benchmarks).rounds <= rounds
          /\ Last(benchmarks).mean_ns = <<Sum(times), Len(times)>>

\* C3's case: a returned Benchmark of a run the timeout cut short, with
\* rounds of different lengths
C3_Witness ==
    /\ Returned
    /\ Last(benchmarks).rounds < rounds
    /\ Last(benchmarks).best_ns < Last(benchmarks).worse_ns

\* C4, as stated: with the default configuration and a mean warmup time of
\* 1 ms, _warmup returns iter_per_round of about 30 (here: 20 to 40) and
\* rounds = 100.
C4_DefaultOneMs ==
    (config = DefaultConfig /\ WarmupReturned /\ mean_warmup[1] = mean_warmup[2]) =>
        /\ iter_per_round \in 20..40
        /\ rounds = 100

\* C4, amended: with the default configuration and a mean warmup time of
\* 1 ms, _warmup returns iter_per_round = 1000 (min_iterations, 30 being below
\* it) and rounds = 30 (min_rounds).
C4_DefaultOneMsAmended ==
    (config = DefaultConfig /\ WarmupReturned /\ mean_warmup[1] = mean_warmup[2]) =>
        /\ iter_per_round = 1000
        /\ rounds = 30

\* C4's case: the default configuration, a warmup of 1 ms calls that ran to
\* its time limit, and _warmup has returned
C4_Witness ==
    /\ config = DefaultConfig /\ WarmupReturned
    /\ mean_warmup[1] = mean_warmup[2]
    /\ calls > 1000

\* C5: high_rounds is the number of rounds run whose time exceeds
\* best_ns * (1 + high_percentage / 100); the 'high' warning is there exactly
\* when high_rounds / (rounds run) > 0.10 and it reports that proportion,
\* also when the timeout cut the run short.
C5_HighWarning ==
    Returned =>
        LET b == Last(benchmarks)
            n == Len(times)
            high == Cardinality({i \in DOMAIN times :
                        100 * times[i] > b.best_ns * (100 + config.high_percentage)})
            said == {w \in Range(b.warnings) : w.msg = HighWarning(0).msg}
        IN  /\ b.high_rounds = high
            /\ (said # {}) <=> (10 * high > n)
            /\ \A w \in said : w.value = RoundDiv(10000 * high, n)

\* C6: when the callable raises, in the warmup or in a round, the error
\* leaves run_benchmark at once: that step appends no Benchmark, and until
\* the next run_benchmark call the callable is not invoked again and
\* benchmarks stays as it was.
C6_CallableErrorPropagates ==
    [][/\ (exc' = "CallableError" /\ exc # "CallableError") =>
              (pc' = "raised" /\ benchmarks' = benchmarks)
       /\ exc = "CallableError" =>
              /\ benchmarks' = benchmarks
              /\ nRuns' = nRuns => calls' = calls]_vars

\* C6's case: the callable raised in a measured round, after a round was
\* timed, in a session that holds a Benchmark
C6_Witness ==
    /\ exc = "CallableError" /\ pc = "raised"
    /\ times # <<>>
    /\ benchmarks # <<>>

\* print_table has printed a grouped table (the records are in sorted order
\* and table holds a row for each)
GroupedTablePrinted ==
    /\ printed # <<>> /\ exc = ""
    /\ benchmarks # <<>> /\ ShowGroups(benchmarks)

\* the first record of i's group in the sorted list
AnchorOf(i) ==
    CHOOSE a \in 1..i :
        /\ benchmarks[a].group = benchmarks[i].group
        /\ \A k \in 1..(a - 1) : benchmarks[k].group # benchmarks[i].group

\* C7: in a grouped table the per-call best time of the first record of each
\* group is at most that of every record of the group, and no relative value
\* is negative.
C7_AnchorIsFastest ==
    GroupedTablePrinted =>
        \A i \in DOMAIN benchmarks :
            LET t == benchmarks[i]
                b == benchmarks[AnchorOf(i)]
            IN  /\ b.best_ns * t.iter_per_round <= t.best_ns * b.iter_per_round
                /\ table[i].rel.value >= 0

\* C8: in a grouped table the first record of a group has an empty relative
\* value; a later record with per-call time t, the group's first having b,
\* has 'x{t/b}' when t > 2b and '+{(t-b)/b}' as a percentage otherwise.  Per-call
\* times 10, 12, 25 give '', '+20.00%', 'x2.50'.
C8_RelativeRule ==
    GroupedTablePrinted =>
        /\ \A i \in DOMAIN benchmarks :
              LET a == AnchorOf(i)
                  tn == benchmarks[i].best_ns * benchmarks[a].iter_per_round
                  bn == benchmarks[a].best_ns * benchmarks[i].iter_per_round
              IN  table[i].rel =
                     IF a = i THEN [prefix |-> "", value |-> 0]
                     ELSE IF tn > 2 * bn
                          THEN [prefix |-> "x", value |-> RoundDiv(100 * tn, bn)]
                          ELSE [prefix |-> "+", value |-> RoundDiv(10000 * (tn - bn), bn)]
        /\ ( /\ Len(benchmarks) = 3
             /\ \A i \in 1..3 : benchmarks[i].group = benchmarks[1].group
             /\ [i \in 1..3 |-> PerCall(benchmarks[i])] = <<<<10, 1>>, <<12, 1>>, <<25, 1>>>> )
           => [i \in 1..3 |-> table[i].rel] =
                 <<[prefix |-> "", value |-> 0], [prefix |-> "+", value |-> 2000],
                   [prefix |-> "x", value |-> 250]>>

\* C9: two print_table calls in a row on the same records print the same:
\* units, divisor, row order, and each row's cells and style.
C9_PrintTwiceSame ==
    Len(printed) >= 2 => printed[2] = printed[1]

\* C10: for any records, also with and without a group mixed, the sort of
\* print_table raises nothing and leaves the records ordered by (group,
\* mean_ns), the records of a group together (the ungrouped ones too), and
\* in a grouped table the first ungrouped record starts a group.
C10_SortCompletes ==
    /\ exc # "TypeError"
    /\ GroupedTablePrinted =>
          \A i \in DOMAIN benchmarks :
              (benchmarks[i].group = None /\ AnchorOf(i) = i) =>
                  table[i].rel = NoRel
    /\ (printed # <<>> /\ benchmarks # <<>>) =>
          \A i, j \in DOMAIN benchmarks :
              (i < j /\ benchmarks[i].group = benchmarks[j].group) =>
                  /\ benchmarks[i].mean_ns[1] * benchmarks[j].mean_ns[2]
                        <= benchmarks[j].mean_ns[1] * benchmarks[i].mean_ns[2]
                  /\ \A k \in i..j : benchmarks[k].group = benchmarks[i].group

====
